---- MODULE Spec2Model ----
(***************************************************************************)
(* HealthPath (src/app_rule.py): the grouping engine of the Streamlit      *)
(* script.  load_and_preprocess_data encodes and standardises the          *)
(* reference dataset, AgglomerativeClustering(n_clusters=4, 'ward') is fit *)
(* over it, analyze_and_map_clusters ranks the clusters by risk score, and *)
(* predict_user_group encodes one individual, refits the clustering over   *)
(* reference rows + individual and looks the individual's label up in the  *)
(* group mapping.                                                          *)
(*                                                                         *)
(* Numbers.  Raw numeric cells are integers.  StandardScaler yields        *)
(* (x - mean) / scale with mean = sum/n and scale = sqrt(n*sumsq-sum^2)/n  *)
(* (scale 1 for a constant column).  The model keeps datasets whose        *)
(* n*sumsq - sum^2 is a perfect square in every numeric column, so that    *)
(* every standardised value is the exact rational (n*x - sum) / root and   *)
(* is stored as an integer in units of 1/Unit, Unit the least common       *)
(* multiple of the columns' roots.  Categorical codes are stored as they   *)
(* are and brought to that unit where the two meet (Features, risk_scores).*)
(* Strings are ordered as Python orders them (StrOrder).                   *)
(*                                                                         *)
(* Clustering.  fit_predict is sklearn's: the Ward linkage tree (scipy),   *)
(* cut by _hc_cut into n_clusters clusters, whose label numbers follow     *)
(* from the heap _hc_cut keeps.  Distances are compared exactly; of        *)
(* several pairs at the same distance the first in node order is merged.   *)
(***************************************************************************)
EXTENDS Integers, Sequences, FiniteSets, TLC

\* ------------------------------------------------------------ schema
categorical_cols ==
    <<"Chronic_Condition", "Diet_Type", "Smoking_Habit",
      "Menstrual_Cycle_Regularity", "Stress_Level", "Tech_Engagement">>

numerical_cols ==
    <<"Age", "BMI", "Physical_Activity_Hours_Per_Week", "Mental_Health_Score",
      "Sleep_Hours_Per_Night", "Alcohol_Consumption_Per_Week">>

Range(s) == {s[i] : i \in DOMAIN s}

CatCols == Range(categorical_cols)

NumCols == Range(numerical_cols)

\* A missing cell (NaN) of the csv or of an individual's record.
NA == "<NA>"

\* The strings of the model in Python's (code point) order.
StrOrder ==
    <<"Balanced", "Diabetes", "Fast-Food", "High", "Hypertension", "Irregular",
      "Low", "Medium", "Non-Smoker", "None", "Other", "Regular", "Smoker",
      "Vegan">>

\* ------------------------------------------------------------ arithmetic
RECURSIVE Gcd(_, _)
Gcd(a, b) == IF b = 0 THEN a ELSE Gcd(b, a % b)

Lcm(a, b) == (a * b) \div Gcd(a, b)

RECURSIVE SumSeq(_)
SumSeq(s) == IF s = <<>> THEN 0 ELSE Head(s) + SumSeq(Tail(s))

\* The integer square root of a perfect square v, -1 when v is none.
ISqrt(v) ==
    IF \E r \in 0..v : r * r = v THEN CHOOSE r \in 0..v : r * r = v ELSE -1

\* a/b < c/d for b, d > 0, without forming the cross products of a and c.
FracLess(a, b, c, d) ==
    LET qa == a \div b
        qc == c \div d
    IN  IF qa # qc THEN qa < qc
        ELSE (a % b) * d < (c % d) * b

\* ------------------------------------------------------------ LabelEncoder
\* LabelEncoder.fit: classes_ is the sorted array of the distinct values.
LabelEncoder_fit(values) == SelectSeq(StrOrder, LAMBDA s : s \in Range(values))

\* LabelEncoder.transform of one value of classes_: its index, from 0.
LabelEncoder_transform(classes, v) ==
    (CHOOSE i \in DOMAIN classes : classes[i] = v) - 1

Column(df, col) == [i \in DOMAIN df |-> df[i][col]]

SetColumn(df, col, vals) ==
    [i \in DOMAIN df |-> [df[i] EXCEPT ![col] = vals[i]]]

\* Lines 17-22: fillna('None') of every categorical column (the Categorical
\* dtype set on line 22 changes no value).
FillNone(df) ==
    [i \in DOMAIN df |->
        [c \in DOMAIN df[i] |->
            IF c \in CatCols /\ df[i][c] = NA THEN "None" ELSE df[i][c]]]

\* Lines 24-28: ONE LabelEncoder object le is refit on every column in turn;
\* fit returns the object itself, so every encoded_cats[col] refers to it.
\* The loop state is the frame, the object's classes_, and the references.
RECURSIVE EncodeLoop(_, _)
EncodeLoop(st, j) ==
    IF j > Len(categorical_cols) THEN st
    ELSE LET col == categorical_cols[j]
             classes == LabelEncoder_fit(Column(st.df, col))
         IN  EncodeLoop(
                 [df |-> SetColumn(st.df, col,
                            [i \in DOMAIN st.df |->
                                LabelEncoder_transform(classes, st.df[i][col])]),
                  le |-> classes,
                  encoded_cats |-> [c \in DOMAIN st.encoded_cats \cup {col} |-> "le"]],
                 j + 1)

\* ------------------------------------------------------------ StandardScaler
\* StandardScaler.fit over the numeric columns: n, the column sums, and
\* root = sqrt(n*sumsq - sum^2), i.e. scale_ = root/n; a zero scale is
\* replaced by 1 (sklearn's _handle_zeros_in_scale), i.e. root = n.
StandardScaler_fit(df) ==
    LET n == Len(df)
        sum(col) == SumSeq(Column(df, col))
        sumsq(col) == SumSeq([i \in DOMAIN df |-> df[i][col] * df[i][col]])
        v(col) == n * sumsq(col) - sum(col) * sum(col)
    IN  [n |-> n,
         sum |-> [col \in NumCols |-> sum(col)],
         root |-> [col \in NumCols |-> IF v(col) = 0 THEN n ELSE ISqrt(v(col))]]

RECURSIVE LcmSeq(_)
LcmSeq(s) == IF s = <<>> THEN 1 ELSE Lcm(Head(s), LcmSeq(Tail(s)))

\* The unit 1/Unit in which one fitted scaler's matrices are stored.
Unit(sc) == LcmSeq([j \in DOMAIN numerical_cols |-> sc.root[numerical_cols[j]]])

\* StandardScaler.transform of one cell: (x - mean_) / scale_, in units 1/Unit.
StandardScaler_transform(sc, col, x) ==
    (sc.n * x - sc.sum[col]) * (Unit(sc) \div sc.root[col])

\* Lines 9-34 after a successful read_csv.
load_and_preprocess_data(raw) ==
    LET enc == EncodeLoop([df |-> FillNone(raw), le |-> <<>>,
                           encoded_cats |-> <<>>], 1)
        sc == StandardScaler_fit(enc.df)
    IN  [df |-> [i \in DOMAIN enc.df |->
                    [c \in DOMAIN enc.df[i] |->
                        IF c \in NumCols
                        THEN StandardScaler_transform(sc, c, enc.df[i][c])
                        ELSE enc.df[i][c]]],
         scaler |-> sc,
         le |-> enc.le,
         encoded_cats |-> enc.encoded_cats]

\* ------------------------------------------------------------ clustering
\* n_clusters of AgglomerativeClustering (line 100).
n_clusters == 4

\* The columns of the matrix handed to fit_predict: every column of the
\* frame but 'Cluster'.
feature_cols == categorical_cols \o numerical_cols

\* One row of that matrix as a tuple in the order of feature_cols,
\* categorical codes brought to units of 1/unit.
Features(row, unit) ==
    [j \in DOMAIN feature_cols |->
        IF feature_cols[j] \in CatCols THEN row[feature_cols[j]] * unit
        ELSE row[feature_cols[j]]] \o <<>>

\* heapq._siftdown(heap, startpos, pos); positions count from 0.
RECURSIVE heap_siftdown(_, _, _)
heap_siftdown(h, startpos, pos) ==
    LET parentpos == (pos - 1) \div 2
    IN  IF pos > startpos /\ h[pos + 1] < h[parentpos + 1]
        THEN heap_siftdown([h EXCEPT ![pos + 1] = h[parentpos + 1],
                                     ![parentpos + 1] = h[pos + 1]],
                           startpos, parentpos)
        ELSE h

\* heapq._siftup(heap, pos): the smaller child moves up until a leaf is hit,
\* the item is put there and sifted down again.
RECURSIVE heap_siftup_from(_, _, _, _)
heap_siftup_from(h, startpos, pos, newitem) ==
    LET childpos == 2 * pos + 1
        rightpos == childpos + 1
        c == IF rightpos < Len(h) /\ ~(h[childpos + 1] < h[rightpos + 1])
             THEN rightpos ELSE childpos
    IN  IF childpos < Len(h)
        THEN heap_siftup_from([h EXCEPT ![pos + 1] = h[c + 1]], startpos, c, newitem)
        ELSE heap_siftdown([h EXCEPT ![pos + 1] = newitem], startpos, pos)

heappush(h, item) == heap_siftdown(Append(h, item), 0, Len(h))

\* heapq.heappushpop(heap, item): the heap it leaves behind.
heappushpop(h, item) ==
    IF h # <<>> /\ h[1] < item
    THEN heap_siftup_from([h EXCEPT ![1] = item], 0, 0, item)
    ELSE h

\* Ward's criterion for merging clusters A and B, each given by its number
\* of rows and the sum of its rows: |A||B|/(|A|+|B|) * ||mean A - mean B||^2,
\* as the fraction WardNum/WardDen.
RECURSIVE WardNum(_, _, _)
WardNum(A, B, j) ==
    IF j = 0 THEN 0
    ELSE LET d == B.size * A.sum[j] - A.size * B.sum[j]
         IN  d * d + WardNum(A, B, j - 1)

WardDen(A, B) == A.size * B.size * (A.size + B.size)

\* The pair of active nodes of least Ward distance; of several at the same
\* distance the first in the order of the node ids.  best is the least pair
\* among those before positions <<i, j>> of the active nodes.
RECURSIVE ClosestPair(_, _, _, _)
ClosestPair(active, i, j, best) ==
    IF i >= Len(active) THEN best
    ELSE IF j > Len(active) THEN ClosestPair(active, i + 1, i + 2, best)
    ELSE LET num == WardNum(active[i], active[j], Len(active[i].sum))
             den == WardDen(active[i], active[j])
         IN  ClosestPair(active, i, j + 1,
                 IF best.den = 0 \/ FracLess(num, den, best.num, best.den)
                 THEN [i |-> i, j |-> j, num |-> num, den |-> den]
                 ELSE best)

\* The linkage tree: merge the two closest active nodes until one is left.
\* Leaves are nodes 0..n-1, the i-th merge makes node n+i, and children[i+1]
\* = <<lower id, higher id>> as in scipy's linkage matrix.  active is kept
\* in the order of the node ids.
RECURSIVE ward_tree(_, _, _)
ward_tree(n_leaves, active, children) ==
    IF Len(active) <= 1 THEN children
    ELSE LET best == ClosestPair(active, 1, 2, [i |-> 0, j |-> 0, num |-> 0, den |-> 0])
             A == active[best.i]
             B == active[best.j]
             merged == [id |-> n_leaves + Len(children),
                        size |-> A.size + B.size,
                        sum |-> [c \in DOMAIN A.sum |-> A.sum[c] + B.sum[c]] \o <<>>]
             rest == SelectSeq(active, LAMBDA N : N.id # A.id /\ N.id # B.id)
         IN  ward_tree(n_leaves, Append(rest, merged),
                       Append(children, <<A.id, B.id>>))

\* Every node's leaves, from the children array (_hc_get_descendent).
RECURSIVE descendents(_, _, _)
descendents(node, children, n_leaves) ==
    IF node < n_leaves THEN {node}
    ELSE descendents(children[node - n_leaves + 1][1], children, n_leaves)
         \cup descendents(children[node - n_leaves + 1][2], children, n_leaves)

\* sklearn's _hc_cut: a heap of negated node ids, the largest node split
\* n_clusters - 1 times; label i goes to the leaves of the heap's i-th entry.
RECURSIVE hc_cut_nodes(_, _, _, _)
hc_cut_nodes(nodes, k, children, n_leaves) ==
    IF k = 0 THEN nodes
    ELSE LET these_children == children[(-nodes[1]) - n_leaves + 1]
         IN  hc_cut_nodes(
                 heappushpop(heappush(nodes, -these_children[1]), -these_children[2]),
                 k - 1, children, n_leaves)

hc_cut(children, n_leaves) ==
    LET last == children[Len(children)]
        root == (IF last[1] > last[2] THEN last[1] ELSE last[2]) + 1
        nodes == hc_cut_nodes(<<-root>>, n_clusters - 1, children, n_leaves)
    IN  [r \in 1..n_leaves |->
            (CHOOSE i \in DOMAIN nodes :
                (r - 1) \in descendents(-nodes[i], children, n_leaves)) - 1]

\* AgglomerativeClustering(n_clusters=4, linkage='ward').fit_predict(X) for
\* at least n_clusters rows: one label of 0..n_clusters-1 per row.
fit_predict(X) ==
    LET n == Len(X)
        leaves == [i \in 1..n |-> [id |-> i - 1, size |-> 1, sum |-> X[i]]] \o <<>>
    IN  hc_cut(ward_tree(n, leaves, <<>>), n)

\* ------------------------------------------------------------ risk ranking
\* sorted(items, key=score): a stable insertion of every item in turn, each
\* placed behind the items whose score is not greater.
RECURSIVE SortedInsert(_, _)
SortedInsert(sorted, item) ==
    IF sorted = <<>> THEN <<item>>
    ELSE LET last == sorted[Len(sorted)]
         IN  IF FracLess(item.num, item.den, last.num, last.den)
             THEN Append(SortedInsert(SubSeq(sorted, 1, Len(sorted) - 1), item), last)
             ELSE Append(sorted, item)

RECURSIVE SortedByRisk(_, _)
SortedByRisk(items, j) ==
    IF j = 0 THEN <<>>
    ELSE SortedInsert(SortedByRisk(items, j - 1), items[j])

\* The sum of column c over the rows S of a frame.
RECURSIVE SumOver(_, _, _)
SumOver(X, S, c) ==
    IF S = {} THEN 0
    ELSE LET i == CHOOSE i \in S : TRUE
         IN  X[i][c] + SumOver(X, S \ {i}, c)

\* Lines 39-49: the centroid of every label present (groupby sorts the labels)
\* and its risk BMI - Sleep + Stress - Mental_Health, as the fraction of the
\* members' sum (in units of 1/unit) over their number.
risk_scores(rows, labels, unit) ==
    LET present == SelectSeq([i \in 1..n_clusters |-> i - 1],
                             LAMBDA c : \E r \in DOMAIN labels : labels[r] = c)
        members(c) == {r \in DOMAIN labels : labels[r] = c}
        total(c, col) == SumOver(rows, members(c), col)
    IN  [j \in DOMAIN present |->
            [cluster |-> present[j],
             num |-> total(present[j], "BMI")
                     - total(present[j], "Sleep_Hours_Per_Night")
                     + total(present[j], "Stress_Level") * unit
                     - total(present[j], "Mental_Health_Score"),
             den |-> Cardinality(members(present[j]))]]

\* analyze_and_map_clusters with sorted(..., reverse=True).
analyze_and_map_clusters_reversed(rows, labels, unit) ==
    LET scores == risk_scores(rows, labels, unit)
        sorted_clusters == SortedByRisk(scores, Len(scores))
    IN  [c \in {sorted_clusters[j].cluster : j \in DOMAIN sorted_clusters} |->
            Len(sorted_clusters)
            - (CHOOSE j \in DOMAIN sorted_clusters : sorted_clusters[j].cluster = c)]

\* analyze_and_map_clusters enumerating sorted_clusters[:-1]: the cluster of
\* highest risk gets no entry.
analyze_and_map_clusters_short(rows, labels, unit) ==
    LET scores == risk_scores(rows, labels, unit)
        sorted_clusters == SortedByRisk(scores, Len(scores))
    IN  [c \in {sorted_clusters[j].cluster : j \in 1..(Len(sorted_clusters) - 1)} |->
            (CHOOSE j \in DOMAIN sorted_clusters : sorted_clusters[j].cluster = c) - 1]

\* Lines 51-54: the group mapping, label -> rank in ascending risk.
analyze_and_map_clusters(rows, labels, unit) ==
    LET scores == risk_scores(rows, labels, unit)
        sorted_clusters == SortedByRisk(scores, Len(scores))
    IN  [c \in {sorted_clusters[j].cluster : j \in DOMAIN sorted_clusters} |->
            (CHOOSE j \in DOMAIN sorted_clusters : sorted_clusters[j].cluster = c) - 1]

\* Line 38: data_df['Cluster'] = cluster_labels, on the caller's frame.
WithCluster(rows, labels) ==
    [i \in DOMAIN rows |->
        [c \in DOMAIN rows[i] \cup {"Cluster"} |->
            IF c = "Cluster" THEN labels[i] ELSE rows[i][c]]]

\* ------------------------------------------------------------ classification
\* le_dict[col].classes_: the classes_ of the object the reference names.
classes_(le_dict, heap, col) == heap[le_dict[col]]

\* Lines 60-67: the code of one categorical value of the individual.
EncodeUserValue(user_data, le_dict, heap, col) ==
    LET value == user_data[col]
    IN  IF \/ value = "None"
           \/ value = NA
           \/ value \notin Range(classes_(le_dict, heap, col))
        THEN 0
        ELSE LabelEncoder_transform(classes_(le_dict, heap, col), value)

\* Lines 58-72: the individual's row, encoded and standardised with the
\* fitted objects, in the frame's columns without 'Cluster' (a column the
\* record lacks is a KeyError on line 72).
EncodeUser(user_data, frame, sc, le_dict, heap) ==
    [c \in DOMAIN frame[1] \ {"Cluster"} |->
        IF c \in CatCols
        THEN (IF c \in DOMAIN user_data
              THEN EncodeUserValue(user_data, le_dict, heap, c)
              ELSE user_data[c])
        ELSE StandardScaler_transform(sc, c, user_data[c])]

\* Line 73: the reference rows without 'Cluster', then the individual's row.
Combined(frame, user_row) ==
    Append([i \in DOMAIN frame |->
               [c \in DOMAIN frame[i] \ {"Cluster"} |-> frame[i][c]]],
           user_row)

Matrix(rows, unit) == [i \in DOMAIN rows |-> Features(rows[i], unit)] \o <<>>

\* Lines 57-77: the locals of predict_user_group when it returns, and whether
\* the lookup group_mapping[user_cluster] found its key.
predict_user_group(user_data, frame, sc, le_dict, heap, mapping) ==
    LET user_df == EncodeUser(user_data, frame, sc, le_dict, heap)
        combined_df == Combined(frame, user_df)
        labels == fit_predict(Matrix(combined_df, Unit(sc)))
        user_cluster == labels[Len(labels)]
    IN  [user_data |-> user_data,
         user_df |-> user_df,
         combined_df |-> combined_df,
         cluster_labels |-> labels,
         user_cluster |-> user_cluster,
         group_mapping |-> mapping,
         raised |-> user_cluster \notin DOMAIN mapping,
         group |-> IF user_cluster \in DOMAIN mapping
                   THEN mapping[user_cluster] ELSE -1]

\* ------------------------------------------------------------ inputs
Row(ch, diet, smoke, mens, stress, tech, age, bmi, pa, mh, sleep, alc) ==
    [Chronic_Condition |-> ch, Diet_Type |-> diet, Smoking_Habit |-> smoke,
     Menstrual_Cycle_Regularity |-> mens, Stress_Level |-> stress,
     Tech_Engagement |-> tech, Age |-> age, BMI |-> bmi,
     Physical_Activity_Hours_Per_Week |-> pa, Mental_Health_Score |-> mh,
     Sleep_Hours_Per_Night |-> sleep, Alcohol_Consumption_Per_Week |-> alc]

\* The records a reference dataset is made of.
Templates ==
    <<Row(NA, "Balanced", "Non-Smoker", "Regular", "Low", "High", 2, 2, 4, 4, 4, 0),
      Row("Diabetes", "Fast-Food", "Smoker", "Irregular", "High", "Low", 4, 4, 2, 2, 2, 2),
      Row("Hypertension", "Vegan", "Non-Smoker", "Regular", "Medium", "Medium", 4, 2, 2, 4, 2, 0),
      Row(NA, "Balanced", "Smoker", "Regular", "High", "Medium", 2, 4, 4, 2, 4, 2)>>

\* The largest number of records of a reference dataset.
MaxRows == 5

\* The smallest: one less than a clustering into n_clusters needs.
MinRows == n_clusters - 1

ExactScale(raw) ==
    \A col \in NumCols :
        LET sum == SumSeq(Column(raw, col))
            sumsq == SumSeq([i \in DOMAIN raw |-> raw[i][col] * raw[i][col]])
        IN  ISqrt(Len(raw) * sumsq - sum * sum) >= 0

\* The datasets read: MinRows..MaxRows records of Templates, in the order
\* of Templates, every numeric column with a rational standard deviation.
Datasets ==
    LET shapes == UNION {[1..n -> DOMAIN Templates] : n \in MinRows..MaxRows}
        ordered == {f \in shapes : \A i \in 1..(Len(f) - 1) : f[i] <= f[i + 1]}
    IN  {raw \in {[i \in DOMAIN f |-> Templates[f[i]]] : f \in ordered} :
            ExactScale(raw)}

\* The individuals submitted: categorical profiles times numeric profiles.
Individuals ==
    {Row("Diabetes", "Fast-Food", "Non-Smoker", "Regular", "High", "Medium", 4, 6, 2, 2, 2, 0),
     Row("None", "Balanced", "Non-Smoker", "Regular", "Medium", "Medium", 2, 2, 4, 4, 4, 0),
     Row("Other", "Other", "Other", "Other", "Other", "Other", 3, 3, 3, 3, 3, 1),
     Row(NA, "Vegan", "Smoker", "Irregular", "Low", "Low", 130, 70, -1, 1, 30, 0),
     Row("Hypertension", "Balanced", "Non-Smoker", "Regular", "Low", "High", 2, 2, 4, 4, 4, 0)}

\* Encoded rows for the ranking taken alone (unit 1): only the four columns of
\* the risk score differ.
RankRow(bmi, sleep, stress, mh) ==
    Row(0, 0, 0, 0, stress, 0, 0, bmi, 0, mh, sleep, 0)

RankRows ==
    <<RankRow(0, 0, 0, 0), RankRow(1, 0, 1, -1), RankRow(2, 1, 0, 1),
      RankRow(-2, 1, 2, 0)>>

\* The number of rows of a frame handed to the ranking taken alone.
MaxRankRows == 4

RankFrames ==
    LET ordered == {f \in [1..MaxRankRows -> DOMAIN RankRows] :
                       \A i \in 1..(MaxRankRows - 1) : f[i] <= f[i + 1]}
    IN  {[i \in DOMAIN f |-> RankRows[f[i]]] : f \in ordered}

\* ------------------------------------------------------------ state
VARIABLES
    pc,                 \* where the script is: start, stopped, loaded, fitted,
                        \* ready (the form is up), crashed (an exception)
    csv,                \* health_data_synthetic.csv: whether it exists, its rows
    st_error,           \* the message st.error has shown, "" for none
    data_df,            \* the module's frame (line 95)
    scaler,             \* the fitted StandardScaler
    le,                 \* the objects le_dict refers to: name -> classes_
    le_dict,            \* encoded_cats: column -> the encoder object's name
    hierarchical_model, \* the AgglomerativeClustering object: its labels_
    cluster_labels,     \* line 101
    group_mapping,      \* line 102
    session_state,      \* st.session_state: user_profile, user_group
    call,               \* the locals of the last predict_user_group call
    remembered,         \* some earlier call's individual and returned group
    rk                  \* analyze_and_map_clusters called on its own arguments

vars ==
    <<pc, csv, st_error, data_df, scaler, le, le_dict, hierarchical_model,
      cluster_labels, group_mapping, session_state, call, remembered, rk>>

None == <<>>

Missing == [exists |-> FALSE, rows |-> <<>>]

RkIdle == [pc |-> "idle", data_df |-> <<>>, cluster_labels |-> <<>>,
           group_mapping |-> <<>>]

ScriptStart ==
    /\ pc = "start"
    /\ st_error = ""
    /\ data_df = None
    /\ scaler = None
    /\ le = None
    /\ le_dict = None
    /\ hierarchical_model = None
    /\ cluster_labels = None
    /\ group_mapping = None
    /\ session_state = [user_profile |-> None, user_group |-> None]
    /\ call = None
    /\ remembered = None

Init ==
    /\ ScriptStart
    /\ csv \in {Missing} \cup {[exists |-> TRUE, rows |-> d] : d \in Datasets}
    /\ rk = RkIdle

\* LoadMissing without the st.stop() of line 97, load_and_preprocess_data
\* returning an empty frame for the missing file.
LoadMissing_continue ==
    /\ pc = "start"
    /\ ~csv.exists
    /\ st_error' = "Dataset 'health_data_synthetic.csv' not found. Please ensure it exists."
    /\ data_df' = <<>>
    /\ hierarchical_model' = [labels_ |-> <<>>]
    /\ pc' = "loaded"
    /\ UNCHANGED <<csv, scaler, le, le_dict, cluster_labels, group_mapping,
                   session_state, call, remembered, rk>>

\* Lines 10-14, 95-97: read_csv raises FileNotFoundError; st.error, the three
\* Nones, and st.stop() ends the run.
LoadMissing ==
    /\ pc = "start"
    /\ ~csv.exists
    /\ st_error' = "Dataset 'health_data_synthetic.csv' not found. Please ensure it exists."
    /\ pc' = "stopped"
    /\ UNCHANGED <<csv, data_df, scaler, le, le_dict, hierarchical_model,
                   cluster_labels, group_mapping, session_state, call,
                   remembered, rk>>

\* Lines 9-34, 95, 100: the frame, the scaler and the encoders; the clustering
\* object is constructed unfitted.
Load ==
    /\ pc = "start"
    /\ csv.exists
    /\ LET r == load_and_preprocess_data(csv.rows)
       IN  /\ data_df' = r.df
           /\ scaler' = r.scaler
           /\ le' = [le |-> r.le]
           /\ le_dict' = r.encoded_cats
    /\ hierarchical_model' = [labels_ |-> <<>>]
    /\ pc' = "loaded"
    /\ UNCHANGED <<csv, st_error, cluster_labels, group_mapping, session_state,
                   call, remembered, rk>>

\* Line 101: fit_predict over the frame; with fewer rows than n_clusters
\* sklearn raises ValueError and the script ends.
Fit ==
    /\ pc = "loaded"
    /\ IF Len(data_df) < n_clusters
       THEN /\ pc' = "crashed"
            /\ UNCHANGED <<hierarchical_model, cluster_labels>>
       ELSE LET labels == fit_predict(Matrix(data_df, Unit(scaler)))
            IN  /\ hierarchical_model' = [labels_ |-> labels]
                /\ cluster_labels' = labels
                /\ pc' = "fitted"
    /\ UNCHANGED <<csv, st_error, data_df, scaler, le, le_dict, group_mapping,
                   session_state, call, remembered, rk>>

\* Line 102: the group mapping of the reference fit; the call writes the
\* 'Cluster' column into data_df.
Map ==
    /\ pc = "fitted"
    /\ group_mapping' = analyze_and_map_clusters(data_df, cluster_labels, Unit(scaler))
    /\ data_df' = WithCluster(data_df, cluster_labels)
    /\ pc' = "ready"
    /\ UNCHANGED <<csv, st_error, scaler, le, le_dict, hierarchical_model,
                   cluster_labels, session_state, call, remembered, rk>>

\* Lines 146-151 (the name is left out).
UserProfile(u, her_group) ==
    [age |-> u.Age, bmi |-> u.BMI, sleep_hours |-> u.Sleep_Hours_Per_Night,
     chronic_conditions |-> u.Chronic_Condition,
     physical_activity_hours |-> u.Physical_Activity_Hours_Per_Week,
     stress_level |-> u.Stress_Level,
     mental_health_score |-> u.Mental_Health_Score,
     diet_type |-> u.Diet_Type, group |-> her_group]

\* What remembered becomes at a call that returns: this call, or the call
\* kept before, with the note whether another individual came since.
Remember(keep, user_data, her_group) ==
    IF keep THEN [user_data |-> user_data, group |-> her_group, others |-> FALSE]
    ELSE IF remembered = None THEN None
    ELSE [remembered EXCEPT
             !.others = remembered.others \/ user_data # remembered.user_data]

\* Submit storing the refit's mapping in the module's group_mapping.
Submit_storing_mapping(user_data) ==
    /\ pc = "ready"
    /\ \E r \in {predict_user_group(user_data, data_df, scaler, le_dict, le,
                                     group_mapping)} :
           /\ call' = r
           /\ hierarchical_model' = [labels_ |-> r.cluster_labels]
           /\ group_mapping' = analyze_and_map_clusters(r.combined_df,
                                   r.cluster_labels, Unit(scaler))
           /\ pc' = "ready"
           /\ session_state' =
                  [user_profile |-> UserProfile(user_data, r.group),
                   user_group |-> r.group]
           /\ \E keep \in BOOLEAN :
                  remembered' = Remember(keep, user_data, r.group)
    /\ UNCHANGED <<csv, st_error, data_df, scaler, le, le_dict, cluster_labels, rk>>

\* Lines 127-151: a submitted form.  predict_user_group is called with the
\* module's objects; fit_predict refits hierarchical_model in place.  A
\* KeyError of the lookup ends the script before session_state is written.
\* The script makes one call in a run; the model lets predict_user_group be
\* called again with the same objects.
Submit(user_data) ==
    /\ pc = "ready"
    /\ \E r \in {predict_user_group(user_data, data_df, scaler, le_dict, le,
                                     group_mapping)} :
           /\ call' = r
           /\ hierarchical_model' = [labels_ |-> r.cluster_labels]
           /\ IF r.raised
              THEN /\ pc' = "crashed"
                   /\ UNCHANGED <<session_state, remembered>>
              ELSE /\ pc' = "ready"
                   /\ session_state' =
                          [user_profile |-> UserProfile(user_data, r.group),
                           user_group |-> r.group]
                   /\ \E keep \in BOOLEAN :
                          remembered' = Remember(keep, user_data, r.group)
    /\ UNCHANGED <<csv, st_error, data_df, scaler, le, le_dict, cluster_labels,
                   group_mapping, rk>>

Next ==
    \/ LoadMissing
    \/ Load
    \/ Fit
    \/ Map
    \/ \E u \in Individuals : Submit(u)

Spec == Init /\ [][Next]_vars

\* ------------------------------------------------------------ ranking alone
\* analyze_and_map_clusters as a function of its arguments: any frame of
\* RankFrames with any label array over 0..n_clusters-1.
RankInit ==
    /\ ScriptStart
    /\ csv = Missing
    /\ rk \in {[pc |-> "args", data_df |-> f, cluster_labels |-> l,
                group_mapping |-> <<>>] :
                  f \in RankFrames, l \in [1..MaxRankRows -> 0..(n_clusters - 1)]}

RankCall ==
    /\ rk.pc = "args"
    /\ rk' = [pc |-> "returned",
              data_df |-> WithCluster(rk.data_df, rk.cluster_labels),
              cluster_labels |-> rk.cluster_labels,
              group_mapping |->
                  analyze_and_map_clusters(rk.data_df, rk.cluster_labels, 1)]
    /\ UNCHANGED <<pc, csv, st_error, data_df, scaler, le, le_dict,
                   hierarchical_model, cluster_labels, group_mapping,
                   session_state, call, remembered>>

RankNext == RankCall

SpecRank == RankInit /\ [][RankNext]_vars

\* ------------------------------------------------------------ properties
Sentinel(v) == IF v = NA THEN "None" ELSE v

\* The values a categorical column of the csv holds once fillna has run.
Observed(col) == {Sentinel(csv.rows[i][col]) : i \in DOMAIN csv.rows}

ConstantColumn(col) ==
    \A i, j \in DOMAIN csv.rows : csv.rows[i][col] = csv.rows[j][col]

Returned == call # None /\ ~call.raised

\* C1: in every classification the mapping that translates the individual's
\* label is the mapping computed from the labels of the same refit over
\* reference rows + individual.
C1_MappingOfSameRefit ==
    call # None =>
        call.group_mapping =
            analyze_and_map_clusters(call.combined_df, call.cluster_labels,
                                     Unit(scaler))

\* The risk of the rows labelled c in the arguments of the ranking taken
\* alone: the sum over the members and their number.
RankMembers(c) == {i \in DOMAIN rk.cluster_labels : rk.cluster_labels[i] = c}

RECURSIVE RowRiskSum(_)
RowRiskSum(S) ==
    IF S = {} THEN 0
    ELSE LET i == CHOOSE i \in S : TRUE
             r == rk.data_df[i]
         IN  r.BMI + r.Stress_Level - r.Sleep_Hours_Per_Night
             - r.Mental_Health_Score + RowRiskSum(S \ {i})

RiskBelow(a, b) ==
    RowRiskSum(RankMembers(a)) * Cardinality(RankMembers(b))
        < RowRiskSum(RankMembers(b)) * Cardinality(RankMembers(a))

RankPresent == {rk.cluster_labels[i] : i \in DOMAIN rk.cluster_labels}

\* C2: the mapping returned by analyze_and_map_clusters is a bijection from
\* exactly the labels present onto 0..n-1 (n <= n_clusters), ordered by
\* ascending centroid risk, equal risks by ascending label.
C2_RankIsOrderedBijection ==
    rk.pc = "returned" =>
        /\ DOMAIN rk.group_mapping = RankPresent
        /\ Cardinality(RankPresent) <= n_clusters
        /\ {rk.group_mapping[c] : c \in RankPresent}
               = 0..(Cardinality(RankPresent) - 1)
        /\ \A a, b \in RankPresent :
               \/ RiskBelow(a, b)
               \/ ~RiskBelow(b, a) /\ a < b
               => rk.group_mapping[a] < rk.group_mapping[b]

\* A ranking has returned for arguments with a tie, a strict difference whose
\* order is against the labels' order, and an absent label.
C2_Witness ==
    /\ rk.pc = "returned"
    /\ RankPresent # 0..(n_clusters - 1)
    /\ \E a, b \in RankPresent : a < b /\ ~RiskBelow(a, b) /\ ~RiskBelow(b, a)
    /\ \E a, b \in RankPresent : a < b /\ RiskBelow(b, a)

\* C3: for every categorical attribute, an individual carrying a value of
\* the attribute's fitted domain ('None' included) gets the code the
\* reference records with that value received.
C3_OwnTableCode ==
    call # None =>
        \A col \in CatCols : \A i \in DOMAIN csv.rows :
            Sentinel(csv.rows[i][col]) = Sentinel(call.user_data[col])
                => call.user_df[col] = data_df[i][col]

\* C4: every classification of a record with all twelve attributes returns:
\* the individual's label has an entry in the mapping and the group is one
\* of 0..n_clusters-1.
C4_ClassificationReturns ==
    call # None =>
        /\ ~call.raised
        /\ pc = "ready"
        /\ call.user_cluster \in DOMAIN call.group_mapping
        /\ call.group \in 0..(n_clusters - 1)
        /\ session_state.user_group = call.group

\* A classification has returned for the individual with implausible numbers
\* and a missing categorical value.
C4_Witness ==
    /\ Returned
    /\ call.user_data.Age > 120
    /\ call.user_data.Physical_Activity_Hours_Per_Week < 0
    /\ call.user_data.Chronic_Condition = NA
    /\ call.group \in 0..(n_clusters - 1)

\* C5: a categorical value of the individual outside the attribute's fitted
\* domain is encoded as 0.
C5_UnseenIsZero ==
    call # None =>
        \A col \in CatCols :
            Sentinel(call.user_data[col]) \notin Observed(col) \cup {"None"}
                => call.user_df[col] = 0

\* C6: a classification of the individual of a remembered earlier call
\* returns the group that call returned, whatever was classified between.
C6_SameIndividualSameGroup ==
    (Returned /\ remembered # None /\ call.user_data = remembered.user_data)
        => call.group = remembered.group

\* The remembered individual has been classified again after another one.
C6_Witness ==
    /\ Returned
    /\ remembered # None
    /\ remembered.others
    /\ call.user_data = remembered.user_data
    /\ call.group = remembered.group

\* C7: a ranking whose label array leaves a label of 0..n_clusters-1 without
\* a row does not return a mapping: a mapping returned covers every label.
C7_EmptyClusterIsAnError ==
    rk.pc = "returned" => DOMAIN rk.group_mapping = 0..(n_clusters - 1)

\* C8: with a numeric attribute constant over the reference dataset the
\* encoder fit fails: no scaler is produced, nothing is clustered or
\* classified.
C8_ConstantColumnIsFatal ==
    (csv.exists /\ \E col \in NumCols : ConstantColumn(col)) =>
        /\ scaler = None
        /\ hierarchical_model \in {None, [labels_ |-> <<>>]}
        /\ call = None

\* C9: when the dataset cannot be loaded the run reports the error and
\* stops; nothing is fitted, mapped or classified.
C9_FailedLoadStops ==
    ~csv.exists =>
        /\ pc \in {"start", "stopped"}
        /\ pc = "stopped" => st_error # ""
        /\ data_df = None
        /\ hierarchical_model = None
        /\ cluster_labels = None
        /\ group_mapping = None
        /\ call = None

\* The run has stopped on the missing dataset, the error shown.
C9_Witness == ~csv.exists /\ pc = "stopped" /\ st_error # ""

FittedState ==
    <<data_df, scaler, le, le_dict, hierarchical_model, cluster_labels>>

\* C10: once the reference clustering is fitted, no step changes the frame,
\* the scaler, the encoders or the clustering object.
C10_FittedStateFrozen ==
    [][(pc = "fitted" \/ pc = "ready") => FittedState' = FittedState]_vars
====
